---- MODULE Spec2Model ----
(***************************************************************************)
(* x402-cli: the probe / confirm / pay orchestration of main() and its     *)
(* output multiplexing (text, --json, --quiet).                            *)
(*                                                                         *)
(* One behaviour is one process invocation.  The flags, the environment    *)
(* and the answers of the outside world (probe response, operator line,    *)
(* payment response) are inputs; main() is cut into one action per         *)
(* blocking point: Start (up to the probe request), ProbeReturn (up to the *)
(* prompt, the payment request or exit), Confirm (the operator's line) and *)
(* PayReturn (the payment response up to exit).                            *)
(***************************************************************************)
EXTENDS Integers, Sequences, FiniteSets

VARIABLES
    args,        \* the parsed flags and the URL argument (main.go 81-153)
    privateKey,  \* os.Getenv("EVM_PRIVATE_KEY")
    writable,    \* whether os.WriteFile on the -o path succeeds
    pc,          \* where main() is: start, probing, confirm, paying, done
    result,      \* *jsonResult
    stdout,      \* lines written to standard output, in order
    stderr,      \* lines written to standard error, in order
    exitCode,    \* <<>> while running, <<code>> after os.Exit(code)
    events,      \* what the run did, in order (requests, reads, signer, ...)
    file,        \* the content of the -o file: <<>> until written
    requests,    \* the HTTP requests sent, in order
    inputs,      \* the answers consumed so far: probe, line, pay
    walletArgs,  \* the wallet command's --network and --json
    walletResult, \* *walletResult
    pending,     \* the networks the loop of runWallet has yet to visit, in order
    current,     \* the network whose RPC call is in flight ("" when none)
    rpcLog,      \* the RPC answers consumed so far, with their network
    codec        \* an amount, a precision and what atomicToHuman made of them

vars == <<args, privateKey, writable, pc, result, stdout, stderr, exitCode, events, file, requests, inputs,
          walletArgs, walletResult, pending, current, rpcLog, codec>>

----------------------------------------------------------------------------
(* Program constants *)

ExitSuccess == 0
ExitError == 1
ExitPaymentRejected == 2
ExitFreeRoute == 3

StatusOK == 200
StatusPaymentRequired == 402

version == "dev"

(* Bounds *)
MaxLineLen == 2
\* the amounts given to the codec are m * 10^e, m up to MaxMantissa, e up to MaxExp
MaxMantissa == 12
MaxExp == 6
\* the decimal precisions given to the codec
MaxDecimals == 6

----------------------------------------------------------------------------
(* Optional values: a nil pointer is <<>>, a set one is <<x>> *)

None == <<>>
Some(x) == <<x>>
IsSome(m) == Len(m) = 1
Get(m) == m[1]

----------------------------------------------------------------------------
(* Input domains *)

BadURL == "http://[bad"
GoodURL == "https://api.example.com/paid"
Endpoints == {"", BadURL, GoodURL}

BadKey == "0xnothex"
GoodKey == "0xac0974bec39a17e36ba4a6b4d238ff944bacb478cbed5efcae784d7bf4f2ff80"
Keys == {"", BadKey, GoodKey}

OutputFiles == {"", "out.json"}

\* the value of -X/--method after flag.Parse ("GET" when not given) and of -d
Methods == {"GET", "PUT"}
Datas == {"", "{}"}

\* Header values: absent, not base64, base64 of `garbage`, base64 of `{"x":1}`
HdrNotBase64 == "!!!"
HdrNotJSON == "Z2FyYmFnZQ=="
HdrJSON == "eyJ4IjoxfQ=="
HeaderValues == {"", HdrNotBase64, HdrNotJSON, HdrJSON}

BodyJSON == "{\"accepts\":[{\"amount\":\"1000\",\"asset\":\"USDC\",\"network\":\"eip155:84532\",\"payTo\":\"0xabc\"}]}"
Bodies == {"", BodyJSON}

ProbeStatuses == {200, 402, 404}
PayStatuses == {200, 402, 500}

NoResponse == [err |-> "", status |-> 0, header |-> "", body |-> ""]
TransportError == [err |-> "dial tcp: connection refused", status |-> 0, header |-> "", body |-> ""]
Responses(statuses) ==
    {TransportError} \cup
    [err : {""}, status : statuses, header : HeaderValues, body : Bodies]

Chars == {"y", "Y", "n", " "}
RECURSIVE SeqsUpTo(_, _)
SeqsUpTo(S, n) ==
    IF n = 0 THEN {<<>>}
    ELSE LET shorter == SeqsUpTo(S, n - 1)
         IN shorter \cup {Append(q, c) : q \in shorter, c \in S}
\* scanner.Scan() either fails (no line can be read) or yields a line
NoLine == [ok |-> FALSE, text |-> <<>>]
Lines == {NoLine} \cup [ok : {TRUE}, text : SeqsUpTo(Chars, MaxLineLen)]

\* methodGiven tells whether -X/--method was on the command line; the code
\* never reads it, it sees only the value of method
ArgSets ==
    {a \in [showVer : BOOLEAN, jsonOutput : BOOLEAN, quiet : BOOLEAN, verbose : BOOLEAN,
            dryRun : BOOLEAN, autoYes : BOOLEAN, skipVerify : BOOLEAN,
            endpoint : Endpoints, outputFile : OutputFiles,
            methodGiven : BOOLEAN, method : Methods, data : Datas] :
        ~a.methodGiven => a.method = "GET"}

----------------------------------------------------------------------------
(* Library functions the code calls *)

Digit(d) == <<"0", "1", "2", "3", "4", "5", "6", "7", "8", "9">>[d + 1]
RECURSIVE Itoa(_)
\* fmt's %d of a non-negative int
Itoa(n) == IF n < 10 THEN Digit(n) ELSE Itoa(n \div 10) \o Digit(n % 10)

\* base64.StdEncoding.DecodeString on the header values of the model
Base64OK(h) == h \in {HdrNotJSON, HdrJSON}
Base64Decode(h) ==
    CASE h = HdrNotJSON -> "garbage"
      [] h = HdrJSON -> "{\"x\":1}"
      [] OTHER -> ""

\* json validity of the byte strings of the model
JSONValid(b) == b \in {"{\"x\":1}", BodyJSON}

\* http.NewRequest: fails when the URL does not parse
NewRequestError(url) == IF url = BadURL THEN "parse \"http://[bad\": missing ']' in host" ELSE ""

\* evmsigners.NewClientSignerFromPrivateKey
SignerError(key) == IF key = GoodKey THEN "" ELSE "invalid hex character 'x' in private key"
SignerAddress(key) == IF key = GoodKey THEN "0xf39Fd6e51aad88F6F4ce6aB8827279cffFb92266" ELSE ""

\* strings.TrimSpace, strings.ToLower, strings.HasPrefix(s, "y") on a line
RECURSIVE TrimLeft(_)
TrimLeft(l) == IF l # <<>> /\ Head(l) = " " THEN TrimLeft(Tail(l)) ELSE l
RECURSIVE TrimRight(_)
TrimRight(l) ==
    IF l # <<>> /\ l[Len(l)] = " " THEN TrimRight(SubSeq(l, 1, Len(l) - 1)) ELSE l
TrimSpace(l) == TrimRight(TrimLeft(l))
LowerChar(c) == IF c = "Y" THEN "y" ELSE c
ToLower(l) == [i \in 1..Len(l) |-> LowerChar(l[i])]
HasPrefixY(l) == Len(l) >= 1 /\ l[1] = "y"

----------------------------------------------------------------------------
(* Output primitives.  A run state s is the record of the variables main()  *)
(* changes: pc, result, stdout, stderr, exitCode, events, file, requests.   *)

\* fmt.Print / fmt.Println / fmt.Printf: one piece of text on standard output
Println(s, text) == [s EXCEPT !.stdout = Append(@, <<"text", text>>)]
\* fmt.Fprintln(os.Stderr, ...) / fmt.Fprintf(os.Stderr, ...)
Eprintln(s, text) == [s EXCEPT !.stderr = Append(@, text)]
Event(s, e) == [s EXCEPT !.events = Append(@, e)]
OsExit(s, code) == [s EXCEPT !.pc = "done", !.exitCode = Some(code)]

LogEnabled(a) == ~a.quiet /\ ~a.jsonOutput
\* the closures log and logln
Log(a, s, text) == IF LogEnabled(a) THEN Println(s, text) ELSE s

truncate(str, n) == IF Len(str) <= n THEN str ELSE SubSeq(str, 1, n)

----------------------------------------------------------------------------
(* The structured result and its JSON encoding *)

ZeroResult ==
    [version |-> "", endpoint |-> "", method |-> "", status |-> "",
     probe |-> None, payment |-> None, error |-> ""]

\* json.Marshal of a *json.RawMessage field fails when the bytes are not JSON
RawInvalid(raw) == IsSome(raw) /\ ~JSONValid(Get(raw))
MarshalFails(r) ==
    \/ IsSome(r.probe) /\ RawInvalid(Get(r.probe).paymentRequirements)
    \/ IsSome(r.payment) /\ RawInvalid(Get(r.payment).paymentResponse)

\* the JSON object of a probeResult: omitempty drops nil and ""
ProbeDoc(p) ==
    LET keys == {"statusCode", "paymentRequired"}
                \cup (IF IsSome(p.paymentRequirements) THEN {"paymentRequirements"} ELSE {})
                \cup (IF p.body # "" THEN {"body"} ELSE {})
    IN [k \in keys |->
          CASE k = "statusCode" -> Itoa(p.statusCode)
            [] k = "paymentRequired" -> IF p.paymentRequired THEN "true" ELSE "false"
            [] k = "paymentRequirements" -> Get(p.paymentRequirements)
            [] OTHER -> p.body]

PayDoc(p) ==
    LET keys == {"statusCode", "accepted"}
                \cup (IF p.signer # "" THEN {"signer"} ELSE {})
                \cup (IF IsSome(p.paymentResponse) THEN {"paymentResponse"} ELSE {})
                \cup (IF p.body # "" THEN {"body"} ELSE {})
    IN [k \in keys |->
          CASE k = "statusCode" -> Itoa(p.statusCode)
            [] k = "accepted" -> IF p.accepted THEN "true" ELSE "false"
            [] k = "signer" -> p.signer
            [] k = "paymentResponse" -> Get(p.paymentResponse)
            [] OTHER -> p.body]

\* the JSON object of a jsonResult: probe is null when nil, payment and error
\* are omitted when nil / ""
ResultDoc(r) ==
    [version |-> r.version, endpoint |-> r.endpoint, method |-> r.method,
     status |-> r.status,
     probe |-> IF IsSome(r.probe) THEN Some(ProbeDoc(Get(r.probe))) ELSE None,
     payment |-> IF IsSome(r.payment) THEN Some(PayDoc(Get(r.payment))) ELSE None,
     error |-> IF r.error # "" THEN Some(r.error) ELSE None]

\* exitJSON: out, _ := json.MarshalIndent(result); fmt.Println(string(out)); os.Exit(code)
\* a failed marshal leaves out nil, so an empty line is printed
exitJSON(s, code) ==
    LET line == IF MarshalFails(s.result) THEN <<"text", "">>
                ELSE <<"json", ResultDoc(s.result)>>
    IN OsExit(Event([s EXCEPT !.stdout = Append(@, line)], "emit"), code)

\* the recurring fatal-error exit: in --json mode the error goes into the
\* document, in text mode to standard error; both exit 1
RECURSIVE EprintAll(_, _)
EprintAll(s, lines) ==
    IF lines = <<>> THEN s ELSE EprintAll(Eprintln(s, Head(lines)), Tail(lines))
\* a slip: the fatal exits leave with ExitSuccess
FatalErrorExitsZero(a, s, errText, lines) ==
    IF a.jsonOutput
    THEN exitJSON([s EXCEPT !.result.status = "error", !.result.error = errText], ExitSuccess)
    ELSE OsExit(EprintAll(s, lines), ExitSuccess)
\* a slip: the status is set but the error text is not
FatalErrorWithoutText(a, s, errText, lines) ==
    IF a.jsonOutput
    THEN exitJSON([s EXCEPT !.result.status = "error"], ExitError)
    ELSE OsExit(EprintAll(s, lines), ExitError)
FatalError(a, s, errText, lines) ==
    IF a.jsonOutput
    THEN exitJSON([s EXCEPT !.result.status = "error", !.result.error = errText], ExitError)
    ELSE OsExit(EprintAll(s, lines), ExitError)

\* a slip: only the --json exits carry the code, the text exits leave with 0
FinishTextExitsZero(a, s, status, code) ==
    LET s1 == [s EXCEPT !.result.status = status]
    IN IF a.jsonOutput THEN exitJSON(s1, code) ELSE OsExit(s1, ExitSuccess)

\* the terminal exits of the classified outcomes: result.Status is set in both
\* modes, the document is emitted only in --json mode
Finish(a, s, status, code) ==
    LET s1 == [s EXCEPT !.result.status = status]
    IN IF a.jsonOutput THEN exitJSON(s1, code) ELSE OsExit(s1, code)

\* a slip: a failed write is recorded as the error of the run
saveOutputRecordingError(s, outputFile, body, canWrite) ==
    IF outputFile = "" \/ Len(body) = 0 THEN s
    ELSE IF canWrite THEN Event([s EXCEPT !.file = Some(body)], "write_file")
    ELSE [Event(s, "write_file") EXCEPT !.result.error = "failed to write to " \o outputFile]
\* saveOutput
saveOutput(s, outputFile, body, canWrite) ==
    IF outputFile = "" \/ Len(body) = 0 THEN s
    ELSE IF canWrite THEN Event([s EXCEPT !.file = Some(body)], "write_file")
    ELSE Eprintln(Event(s, "write_file"), "Warning: failed to write to " \o outputFile)

\* printBase64Header
printBase64Header(s, name, value) ==
    LET s1 == Println(s, name \o ": " \o truncate(value, 60) \o "...")
    IN IF Base64OK(value) /\ JSONValid(Base64Decode(value))
       THEN Println(s1, name \o " (decoded): " \o Base64Decode(value))
       ELSE s1

\* the tolerant header decode of lines 239-243 and 365-369
DecodeHeader(h) == IF h # "" /\ Base64OK(h) THEN Some(Base64Decode(h)) ELSE None

\* printPaymentSummary
printPaymentSummary(s, body) ==
    LET s1 == Println(s, "--- Payment Summary ---")
    IN IF body = BodyJSON
       THEN Println(Println(Println(s1, "Cost:     1000 USDC (atomic units)"),
                            "Network:  eip155:84532"), "Pay to:   0xabc")
       ELSE s1

----------------------------------------------------------------------------
(* main(), cut at its blocking points *)

\* lines 143-151: --version
ShowVersion(a, s) ==
    IF a.jsonOutput
    THEN OsExit([s EXCEPT !.stdout = Append(@, <<"json", [version |-> version]>>)], 0)
    ELSE OsExit(Println(s, "x402-cli " \o version), 0)

\* lines 153-161: the URL argument is required
MissingURL(a, s) ==
    IF a.jsonOutput
    THEN exitJSON([s EXCEPT !.result = [ZeroResult EXCEPT !.version = version,
                                                          !.status = "error",
                                                          !.error = "URL argument is required"]],
                  ExitError)
    ELSE OsExit(EprintAll(s, <<"Error: URL argument is required",
                               "Usage: x402-cli [flags] <url>">>), ExitError)

\* lines 163-166: -d without -X defaults the method to POST
Method(a) == IF a.data # "" /\ a.method = "GET" THEN "POST" ELSE a.method

\* a slip: the request is sent again after the first attempt
SendTwice(s, kind, a) ==
    LET r == [kind |-> kind, method |-> Method(a), url |-> a.endpoint, body |-> a.data]
    IN [Event(Event(s, kind), kind) EXCEPT !.requests = Append(Append(@, r), r)]

\* newRequest / newRequestWithContext and the client's Do: the request sent
Send(s, kind, a) ==
    [Event(s, kind) EXCEPT !.requests =
        Append(@, [kind |-> kind, method |-> Method(a), url |-> a.endpoint, body |-> a.data])]

\* lines 70-217: from process start to the probe request on the wire
StartStep(a, s) ==
    IF a.showVer THEN ShowVersion(a, s)
    ELSE IF a.endpoint = "" THEN MissingURL(a, s)
    ELSE
      LET s1 == [s EXCEPT !.result = [ZeroResult EXCEPT !.version = version,
                                                        !.endpoint = a.endpoint,
                                                        !.method = Method(a)]]
          s2 == Log(a, Log(a, Log(a, s1, "x402-cli " \o version),
                           "Endpoint: " \o a.endpoint), "Method:   " \o Method(a))
          s3 == Log(a, s2, "--- Step 1: Request without payment ---")
          err == NewRequestError(a.endpoint)
      IN IF err # ""
         THEN FatalError(a, s3, err, <<"Error creating request: " \o err>>)
         ELSE LET s4 == IF a.verbose /\ ~a.quiet /\ ~a.jsonOutput
                        THEN Println(s3, "-> Request:") ELSE s3
              IN [Send(s4, "probe_request", a) EXCEPT !.pc = "probing"]

\* a slip: every client error taken for payment-required
PaymentRequiredAnyClientError(code) == code >= 400 /\ code < 500

\* line 237
PaymentRequired(code) == code = StatusPaymentRequired

\* a slip: the signer is constructed before the credential is checked
Step2SignerFirst(a, key, s) ==
    LET s0 == Event(Event(s, "new_signer"), "credential_check")
        err == SignerError(key)
    IN IF err # ""
       THEN FatalError(a, s0, "failed to create signer: " \o err,
                       <<"Failed to create signer: " \o err>>)
       ELSE [Send(Log(a, s0, "Signer: " \o SignerAddress(key)), "payment_request", a)
               EXCEPT !.pc = "paying"]

\* lines 301-340: credential check, signer, wrapped client, payment request
Step2(a, key, s) ==
    LET s0 == Event(s, "credential_check")
        errMsg == "EVM_PRIVATE_KEY is required for Step 2 (payment)"
    IN IF key = ""
       THEN FatalError(a, s0, errMsg,
                       <<"Error: " \o errMsg \o ".", "Set it with: export EVM_PRIVATE_KEY=0x...">>)
       ELSE
         LET s1 == Event(Log(a, s0, "--- Step 2: Request with x402 payment ---"),
                         "new_signer")
             err == SignerError(key)
         IN IF err # ""
            THEN FatalError(a, s1, "failed to create signer: " \o err,
                            <<"Failed to create signer: " \o err>>)
            ELSE [Send(Log(a, s1, "Signer: " \o SignerAddress(key)), "payment_request", a)
                    EXCEPT !.pc = "paying"]

\* a slip: the credential check hoisted in front of the gate
DryRunGateNeedsKey(a, key, s, body) ==
    IF key = ""
    THEN FatalError(a, s, "EVM_PRIVATE_KEY is required for Step 2 (payment)",
                    <<"Error: EVM_PRIVATE_KEY is required for Step 2 (payment).">>)
    ELSE IF a.dryRun /\ ~a.autoYes
    THEN IF a.jsonOutput
         THEN exitJSON([s EXCEPT !.result.status = "payment_required"], ExitSuccess)
         ELSE [Event(Println(printPaymentSummary(s, body), "Proceed with payment? [y/N] "),
                     "prompt") EXCEPT !.pc = "confirm"]
    ELSE Step2(a, key, s)

\* lines 284-299, up to the read of the operator's line
DryRunGate(a, key, s, body) ==
    IF a.dryRun /\ ~a.autoYes
    THEN IF a.jsonOutput
         THEN exitJSON([s EXCEPT !.result.status = "payment_required"], ExitSuccess)
         ELSE [Event(Println(printPaymentSummary(s, body), "Proceed with payment? [y/N] "),
                     "prompt") EXCEPT !.pc = "confirm"]
    ELSE Step2(a, key, s)

\* a slip: strings.Contains in place of strings.HasPrefix
AffirmativeAnywhere(line) ==
    line.ok /\ \E i \in 1..Len(line.text) : ToLower(line.text)[i] = "y"

\* line 294: the answer is affirmative
Affirmative(line) == line.ok /\ HasPrefixY(ToLower(TrimSpace(line.text)))

\* lines 293-299 and on: the operator's line has been read (or could not be)
ConfirmStep(a, key, s, line) ==
    LET s1 == Event(s, "stdin_read")
    IN IF ~Affirmative(line)
       THEN OsExit(Println(s1, "Aborted."), ExitSuccess)
       ELSE Step2(a, key, Println(s1, ""))

\* a slip: the free route exits with ExitSuccess
NotPaymentRequiredFreeExitsZero(a, s, resp, canWrite) ==
    LET s1 == Log(a, s, "Endpoint did not return 402 Payment Required.")
    IN IF resp.status = StatusOK
       THEN Finish(a, saveOutput(Log(a, s1, "The endpoint is accessible without payment (free route)."),
                                 a.outputFile, resp.body, canWrite),
                   "free", ExitSuccess)
       ELSE Finish(a, s1, "no_402", ExitSuccess)

\* a slip: the body of every non-402 probe response is saved
NotPaymentRequiredSavesAlways(a, s, resp, canWrite) ==
    LET s1 == saveOutput(Log(a, s, "Endpoint did not return 402 Payment Required."),
                         a.outputFile, resp.body, canWrite)
    IN IF resp.status = StatusOK
       THEN Finish(a, Log(a, s1, "The endpoint is accessible without payment (free route)."),
                   "free", ExitFreeRoute)
       ELSE Finish(a, s1, "no_402", ExitSuccess)

\* lines 257-273: the probe did not answer 402
NotPaymentRequired(a, s, resp, canWrite) ==
    LET s1 == Log(a, s, "Endpoint did not return 402 Payment Required.")
    IN IF resp.status = StatusOK
       THEN Finish(a, saveOutput(Log(a, s1, "The endpoint is accessible without payment (free route)."),
                                 a.outputFile, resp.body, canWrite),
                   "free", ExitFreeRoute)
       ELSE Finish(a, s1, "no_402", ExitSuccess)

\* a slip: --skip-verify falls through into the payment phase's error exit
SkipVerifyExitsError(a, s) ==
    Finish(a, Log(a, s, "--skip-verify: stopping after Step 1."), "payment_required", ExitError)

\* lines 275-282
SkipVerify(a, s) ==
    Finish(a, Log(a, s, "--skip-verify: stopping after Step 1."), "payment_required", ExitSuccess)

\* lines 234-255: the probe outcome
BuildProbe(resp) ==
    [statusCode |-> resp.status,
     paymentRequired |-> PaymentRequired(resp.status),
     paymentRequirements |-> DecodeHeader(resp.header),
     body |-> resp.body]

\* lines 217-340: the probe returned; run on to the next blocking point
ProbeStep(a, key, s, resp, canWrite) ==
    IF resp.err # ""
    THEN FatalError(a, s, resp.err, <<"Error: " \o resp.err>>)
    ELSE
      LET s0 == Event(s, "probe_response")
          s1 == IF a.verbose /\ ~a.quiet /\ ~a.jsonOutput
                THEN Println(s0, "<- Response: " \o Itoa(resp.status)) ELSE s0
          s2 == IF resp.header # "" /\ ~a.quiet /\ ~a.jsonOutput
                THEN printBase64Header(s1, "PAYMENT-REQUIRED", resp.header) ELSE s1
          s3 == IF ~a.jsonOutput
                THEN LET l == Log(a, s2, "Status: " \o Itoa(resp.status))
                     IN IF ~a.verbose THEN Log(a, l, "Body: " \o truncate(resp.body, 300)) ELSE l
                ELSE s2
          s4 == [s3 EXCEPT !.result.probe = Some(BuildProbe(resp))]
      IN IF resp.status # StatusPaymentRequired THEN NotPaymentRequired(a, s4, resp, canWrite)
         ELSE IF a.skipVerify THEN SkipVerify(a, s4)
         ELSE DryRunGate(a, key, s4, resp.body)

\* a slip: everything but a second 402 taken for acceptance
AcceptedUnlessRejected(code) == code # StatusPaymentRequired

\* line 361
Accepted(code) == code = StatusOK

\* a slip: the credential itself recorded as the signer
BuildPayLeakingKey(key, resp) ==
    [statusCode |-> resp.status,
     accepted |-> Accepted(resp.status),
     signer |-> key,
     paymentResponse |-> DecodeHeader(resp.header),
     body |-> resp.body]

\* lines 358-374: the payment outcome
BuildPay(key, resp) ==
    [statusCode |-> resp.status,
     accepted |-> Accepted(resp.status),
     signer |-> SignerAddress(key),
     paymentResponse |-> DecodeHeader(resp.header),
     body |-> resp.body]

\* lines 386-409: the switch on the payment response's status
ClassifyPayment(a, s, code) ==
    IF code = StatusOK
    THEN Finish(a, Log(a, s, "Payment accepted!"), "accepted", ExitSuccess)
    ELSE IF code = StatusPaymentRequired
    THEN Finish(a, Log(a, s, "Payment was rejected. Check wallet balance and facilitator logs."),
                "rejected", ExitPaymentRejected)
    ELSE Finish(a, [Log(a, s, "Unexpected status " \o Itoa(code) \o ".")
                      EXCEPT !.result.error = "unexpected status " \o Itoa(code)],
                "error", ExitError)

\* lines 340-409: the payment request returned
PayStep(a, key, s, resp, canWrite) ==
    IF resp.err # ""
    THEN FatalError(a, s, "payment request failed: " \o resp.err,
                    <<"Payment request failed: " \o resp.err>>)
    ELSE
      LET s0 == Event(s, "payment_response")
          s1 == IF a.verbose /\ ~a.quiet /\ ~a.jsonOutput
                THEN Println(s0, "<- Response: " \o Itoa(resp.status)) ELSE s0
          s2 == IF resp.header # "" /\ ~a.quiet /\ ~a.jsonOutput
                THEN printBase64Header(s1, "PAYMENT-RESPONSE", resp.header) ELSE s1
          s3 == [s2 EXCEPT !.result.payment = Some(BuildPay(key, resp))]
          s4 == IF ~a.jsonOutput
                THEN LET l == Log(a, s3, "Status: " \o Itoa(resp.status))
                     IN IF ~a.verbose THEN Log(a, l, "Body: " \o truncate(resp.body, 500)) ELSE l
                ELSE s3
      IN ClassifyPayment(a, saveOutput(s4, a.outputFile, resp.body, canWrite), resp.status)

----------------------------------------------------------------------------
(* The amount codec and the hex decoding of the wallet command              *)
(* (src/unnamed/part_002).  Numbers on the wire are strings.                *)

CharAt(str, i) == SubSeq(str, i, i)
\* strings.TrimPrefix
HasPrefix(str, p) == Len(str) >= Len(p) /\ SubSeq(str, 1, Len(p)) = p
TrimPrefix(str, p) == IF HasPrefix(str, p) THEN SubSeq(str, Len(p) + 1, Len(str)) ELSE str

DigitValue(c) ==
    CASE c = "0" -> 0 [] c = "1" -> 1 [] c = "2" -> 2 [] c = "3" -> 3 [] c = "4" -> 4
      [] c = "5" -> 5 [] c = "6" -> 6 [] c = "7" -> 7 [] c = "8" -> 8 [] c = "9" -> 9
      [] OTHER -> -1
\* encoding/hex accepts both cases of a..f
HexValue(c) ==
    CASE DigitValue(c) >= 0 -> DigitValue(c)
      [] c \in {"a", "A"} -> 10 [] c \in {"b", "B"} -> 11 [] c \in {"c", "C"} -> 12
      [] c \in {"d", "D"} -> 13 [] c \in {"e", "E"} -> 14 [] c \in {"f", "F"} -> 15
      [] OTHER -> -1

RECURSIVE ParseDecimal(_)
\* big.Int.SetString(raw, 10) of a string of decimal digits
ParseDecimal(str) ==
    IF str = "" THEN 0
    ELSE 10 * ParseDecimal(SubSeq(str, 1, Len(str) - 1)) + DigitValue(CharAt(str, Len(str)))

RECURSIVE ParseHex(_)
\* new(big.Int).SetBytes(b) of the bytes hex.DecodeString gave
ParseHex(str) ==
    IF str = "" THEN 0
    ELSE 16 * ParseHex(SubSeq(str, 1, Len(str) - 1)) + HexValue(CharAt(str, Len(str)))

\* hex.DecodeString fails on an odd length or on a character that is no hex digit
HexDecodeOK(str) ==
    /\ Len(str) % 2 = 0
    /\ \A i \in 1..Len(str) : HexValue(CharAt(str, i)) >= 0

RECURSIVE ZeroPad(_, _)
\* fmt.Sprintf("%0*s", width, str): zeros on the left up to the width
ZeroPad(str, width) == IF Len(str) >= width THEN str ELSE ZeroPad("0" \o str, width)

RECURSIVE TrimRightZeros(_)
\* strings.TrimRight(str, "0")
TrimRightZeros(str) ==
    IF str # "" /\ CharAt(str, Len(str)) = "0"
    THEN TrimRightZeros(SubSeq(str, 1, Len(str) - 1)) ELSE str

\* what the runtime reports for fracStr[:2] on a string of one character
SliceOutOfRange == "panic: runtime error: slice bounds out of range [:2] with length 1"
Panicked(v) == v = SliceOutOfRange

atomicToHuman(raw, decimals) ==
    LET bal == ParseDecimal(raw)
        divisor == 10 ^ decimals
        whole == bal \div divisor
        frac == bal % divisor
        fracStr == ZeroPad(Itoa(frac), decimals)
        trimmed == TrimRightZeros(fracStr)
    IN IF frac = 0 THEN Itoa(whole) \o ".000000"
       ELSE IF Len(trimmed) >= 2 THEN Itoa(whole) \o "." \o trimmed
       ELSE IF Len(fracStr) >= 2 THEN Itoa(whole) \o "." \o SubSeq(fracStr, 1, 2)
       ELSE SliceOutOfRange

padHexLeft(str) == IF Len(str) % 2 # 0 THEN "0" \o str ELSE str

----------------------------------------------------------------------------
(* The wallet command (src/unnamed/part_002).  A wallet run state w is the  *)
(* record of what runWalletCmd changes: pc, stdout, stderr, exitCode,       *)
(* requests, result (the walletResult), pending (the rest of the range over    *)
(* netsToQuery, in iteration order) and current (the network whose RPC call *)
(* is in flight).                                                           *)

NetworkNames == {"base", "base-sepolia", "avalanche", "avalanche-fuji"}
networks ==
    [name \in NetworkNames |->
       CASE name = "base" ->
              [ChainID |-> "eip155:8453", RPCURL |-> "https://mainnet.base.org",
               USDCContract |-> "0x833589fCD6eDb6E08f4c7C32D4f71b54bdA02913",
               Decimals |-> 6, Name |-> "Base"]
         [] name = "base-sepolia" ->
              [ChainID |-> "eip155:84532", RPCURL |-> "https://sepolia.base.org",
               USDCContract |-> "0x036CbD53842c5426634e7929541eC2318f3dCF7e",
               Decimals |-> 6, Name |-> "Base Sepolia"]
         [] name = "avalanche" ->
              [ChainID |-> "eip155:43114", RPCURL |-> "https://api.avax.network/ext/bc/C/rpc",
               USDCContract |-> "0xB97EF9Ef8734C71904D8002F8b6Bc66Dd9c48a6E",
               Decimals |-> 6, Name |-> "Avalanche"]
         [] name = "avalanche-fuji" ->
              [ChainID |-> "eip155:43113", RPCURL |-> "https://api.avax-test.network/ext/bc/C/rpc",
               USDCContract |-> "0x5425890298aed601595a70AB815c96711a31Bc65",
               Decimals |-> 6, Name |-> "Avalanche Fuji"]]

\* an order in which a range statement visits the keys of the networks map
Orders ==
    {o \in [1..Cardinality(NetworkNames) -> NetworkNames] :
        \A i, j \in DOMAIN o : o[i] = o[j] => i = j}

\* the values of --network and --json after fs.Parse
UnknownNetwork == "mars"
WalletNetworkArgs == {"", "base", "avalanche-fuji", UnknownNetwork}
WalletArgSets == [network : WalletNetworkArgs, jsonOut : BOOLEAN]

\* what client.Post and the body of its response can be
Zeros64 == "0000000000000000000000000000000000000000000000000000000000000000"
RPCResults == {"0x", "0x0", "0x" \o Zeros64, "0x3e8", "0x0F4240", "0xzz"}
RPCTransportError == "Post: dial tcp: connection refused"
RPCResponses ==
    {[err |-> RPCTransportError, valid |-> FALSE, rpcError |-> None, result |-> ""],
     [err |-> "", valid |-> FALSE, rpcError |-> None, result |-> ""],
     [err |-> "", valid |-> TRUE, rpcError |-> Some("execution reverted"), result |-> ""]}
    \cup [err : {""}, valid : {TRUE}, rpcError : {None}, result : RPCResults]

ZeroWalletResult == [address |-> "", balances |-> <<>>, error |-> ""]

\* main returns after runWalletCmd: the process ends with exit status 0
MainReturns(w) == [w EXCEPT !.pc = "done", !.exitCode = Some(0)]

RECURSIVE Join(_)
\* strings.Join(names, ", ")
Join(names) ==
    IF names = <<>> THEN ""
    ELSE IF Len(names) = 1 THEN names[1]
    ELSE names[1] \o ", " \o Join(Tail(names))
availableNetworks(order) == Join(order)

RECURSIVE PadRight(_, _)
\* the %-18s of Printf: spaces on the right up to the width
PadRight(str, width) == IF Len(str) >= width THEN str ELSE PadRight(str \o " ", width)

LowerHex(c) ==
    CASE c = "A" -> "a" [] c = "B" -> "b" [] c = "C" -> "c"
      [] c = "D" -> "d" [] c = "E" -> "e" [] c = "F" -> "f" [] OTHER -> c
RECURSIVE StrToLower(_)
\* strings.ToLower of an address
StrToLower(str) ==
    IF str = "" THEN ""
    ELSE StrToLower(SubSeq(str, 1, Len(str) - 1)) \o LowerHex(CharAt(str, Len(str)))

\* lines 142-143: the balanceOf selector and the address padded to 32 bytes
callData(walletAddr) ==
    "0x70a08231" \o ZeroPad(TrimPrefix(StrToLower(walletAddr), "0x"), 64)

\* lines 139-160: the eth_call request on the wire
PostRPC(w, name) ==
    [w EXCEPT !.pc = "wallet_rpc", !.current = name,
              !.requests = Append(@, [kind |-> "rpc", method |-> "POST",
                                      url |-> networks[name].RPCURL,
                                      to |-> networks[name].USDCContract,
                                      body |-> callData(w.result.address)])]

RPCFailure(text) == [human |-> "", raw |-> "", err |-> text]
\* lines 160-193: what queryUSDCBalance returns for the answer to its request
\* (err = "" is the nil error)
queryUSDCBalance(resp) ==
    IF resp.err # "" THEN RPCFailure("rpc call failed: " \o resp.err)
    ELSE IF ~resp.valid THEN RPCFailure("invalid rpc response")
    ELSE IF IsSome(resp.rpcError) THEN RPCFailure("rpc error: " \o Get(resp.rpcError))
    ELSE LET hexStr == TrimPrefix(resp.result, "0x")
         IN IF hexStr = "" \/ hexStr = "0" THEN [human |-> "0", raw |-> "0", err |-> ""]
            ELSE IF ~HexDecodeOK(padHexLeft(hexStr)) THEN RPCFailure("invalid hex: " \o hexStr)
            ELSE LET raw == Itoa(ParseHex(padHexLeft(hexStr)))
                 IN [human |-> atomicToHuman(raw, 6), raw |-> raw, err |-> ""]

\* lines 104-110 and 117-124
BalanceEntry(name, q) ==
    IF q.err # ""
    THEN [network |-> name, chainId |-> networks[name].ChainID, asset |-> "USDC",
          balance |-> "error", decimals |-> 0, raw |-> q.err]
    ELSE [network |-> name, chainId |-> networks[name].ChainID, asset |-> "USDC",
          balance |-> q.human, decimals |-> networks[name].Decimals, raw |-> q.raw]
\* lines 113 and 128
BalanceLine(name, q) ==
    IF q.err # ""
    THEN "  " \o PadRight(networks[name].Name \o " (USDC):", 18) \o "  error: " \o q.err
    ELSE "  " \o PadRight(networks[name].Name \o ":", 18) \o "  " \o q.human \o " USDC"

\* a slip: a failed network leaves no entry
AppendEntrySkippingFailures(wa, w, name, q) ==
    LET w1 == IF q.err # "" THEN w
              ELSE [w EXCEPT !.result.balances = Append(@, BalanceEntry(name, q))]
    IN IF ~wa.jsonOut THEN Println(w1, BalanceLine(name, q)) ELSE w1
\* a slip: a failed network is reported with the balance of the entry before it
AppendEntryReusingLast(wa, w, name, q) ==
    LET e == BalanceEntry(name, q)
        n == Len(w.result.balances)
        e1 == IF q.err # "" /\ n > 0
              THEN [e EXCEPT !.balance = w.result.balances[n].balance] ELSE e
        w1 == [w EXCEPT !.result.balances = Append(@, e1)]
    IN IF ~wa.jsonOut THEN Println(w1, BalanceLine(name, q)) ELSE w1
\* lines 102-129: the body of the loop after queryUSDCBalance has returned
AppendEntry(wa, w, name, q) ==
    LET w1 == [w EXCEPT !.result.balances = Append(@, BalanceEntry(name, q))]
    IN IF ~wa.jsonOut THEN Println(w1, BalanceLine(name, q)) ELSE w1

\* json.MarshalIndent(result): error is omitted when empty
WalletDoc(r) ==
    [address |-> r.address, balances |-> r.balances,
     error |-> IF r.error = "" THEN None ELSE Some(r.error)]
PrintWalletDoc(w) == [w EXCEPT !.stdout = Append(@, <<"json", WalletDoc(w.result)>>)]

\* lines 101-136: the next iteration of the loop, or its end
LoopNext(wa, w) ==
    IF w.pending = <<>>
    THEN MainReturns([(IF wa.jsonOut THEN PrintWalletDoc(w) ELSE w) EXCEPT !.current = ""])
    ELSE PostRPC([w EXCEPT !.pending = Tail(@)], Head(w.pending))

\* lines 76-101: runWallet up to the first RPC call; order is the order in
\* which this execution ranges over the networks map
runWallet(wa, w, address, order) ==
    LET w0 == [w EXCEPT !.result = [ZeroWalletResult EXCEPT !.address = address]]
    IN IF wa.network # "" /\ wa.network \notin NetworkNames
       THEN IF wa.jsonOut
            THEN MainReturns(PrintWalletDoc(
                    [w0 EXCEPT !.result.error = "unknown network: " \o wa.network]))
            ELSE MainReturns(Eprintln(Eprintln(w0, "Unknown network: " \o wa.network),
                                      "Available: " \o availableNetworks(order)))
       ELSE LET netsToQuery == IF wa.network = "" THEN order ELSE <<wa.network>>
                w1 == IF ~wa.jsonOut
                      THEN Println(Println(w0, "Wallet:  " \o address), "")
                      ELSE w0
            IN LoopNext(wa, [w1 EXCEPT !.pending = netsToQuery])

\* lines 235-264
runWalletCmd(wa, key, w, order) ==
    IF key = ""
    THEN OsExit(Eprintln(Eprintln(w, "Error: EVM_PRIVATE_KEY is required."),
                         "Set it with: export EVM_PRIVATE_KEY=0x..."), 1)
    ELSE IF SignerError(key) # ""
    THEN OsExit(Eprintln(w, "Failed to create signer: " \o SignerError(key)), 1)
    ELSE runWallet(wa, w, SignerAddress(key), order)

\* lines 102-136: queryUSDCBalance returns, the entry is recorded, the loop
\* goes on
RPCReturnStep(wa, w, resp) ==
    LoopNext(wa, AppendEntry(wa, w, w.current, queryUSDCBalance(resp)))

----------------------------------------------------------------------------
(* The state machine *)

Cur ==
    [pc |-> pc, result |-> result, stdout |-> stdout, stderr |-> stderr,
     exitCode |-> exitCode, events |-> events, file |-> file, requests |-> requests]

InitRun ==
    [pc |-> "start", result |-> ZeroResult, stdout |-> <<>>, stderr |-> <<>>,
     exitCode |-> None, events |-> <<>>, file |-> None, requests |-> <<>>]

Become(s) ==
    /\ pc' = s.pc
    /\ result' = s.result
    /\ stdout' = s.stdout
    /\ stderr' = s.stderr
    /\ exitCode' = s.exitCode
    /\ events' = s.events
    /\ file' = s.file
    /\ requests' = s.requests

NoInputs == [probe |-> None, line |-> None, pay |-> None]

\* the wallet command and the codec at rest
walletVars == <<walletArgs, walletResult, pending, current, rpcLog>>
WalletIdle ==
    /\ walletArgs = [network |-> "", jsonOut |-> FALSE]
    /\ walletResult = ZeroWalletResult
    /\ pending = <<>>
    /\ current = ""
    /\ rpcLog = <<>>
CodecIdle == codec = [raw |-> "0", decimals |-> 0, human |-> None]

Init ==
    /\ args \in ArgSets
    /\ privateKey \in Keys
    /\ writable \in (IF args.outputFile = "" THEN {TRUE} ELSE BOOLEAN)
    /\ pc = InitRun.pc
    /\ result = InitRun.result
    /\ stdout = InitRun.stdout
    /\ stderr = InitRun.stderr
    /\ exitCode = InitRun.exitCode
    /\ events = InitRun.events
    /\ file = InitRun.file
    /\ requests = InitRun.requests
    /\ inputs = NoInputs
    /\ WalletIdle
    /\ CodecIdle

Start ==
    /\ pc = "start"
    /\ Become(StartStep(args, Cur))
    /\ UNCHANGED <<args, privateKey, writable, inputs, walletVars, codec>>

ProbeReturn ==
    /\ pc = "probing"
    /\ \E resp \in Responses(ProbeStatuses) :
          /\ Become(ProbeStep(args, privateKey, Cur, resp, writable))
          /\ inputs' = [inputs EXCEPT !.probe = Some(resp)]
    /\ UNCHANGED <<args, privateKey, writable, walletVars, codec>>

Confirm ==
    /\ pc = "confirm"
    /\ \E line \in Lines :
          /\ Become(ConfirmStep(args, privateKey, Cur, line))
          /\ inputs' = [inputs EXCEPT !.line = Some(line)]
    /\ UNCHANGED <<args, privateKey, writable, walletVars, codec>>

PayReturn ==
    /\ pc = "paying"
    /\ \E resp \in Responses(PayStatuses) :
          /\ Become(PayStep(args, privateKey, Cur, resp, writable))
          /\ inputs' = [inputs EXCEPT !.pay = Some(resp)]
    /\ UNCHANGED <<args, privateKey, writable, walletVars, codec>>

Next == Start \/ ProbeReturn \/ Confirm \/ PayReturn

Spec == Init /\ [][Next]_vars

----------------------------------------------------------------------------
(* The state machine of `x402-cli wallet` (main.go 75-79 dispatches to      *)
(* runWalletCmd and returns)                                                *)

\* the flags of the run command are never parsed
FlagDefaults ==
    [showVer |-> FALSE, jsonOutput |-> FALSE, quiet |-> FALSE, verbose |-> FALSE,
     dryRun |-> FALSE, autoYes |-> FALSE, skipVerify |-> FALSE,
     endpoint |-> "", outputFile |-> "", methodGiven |-> FALSE, method |-> "GET", data |-> ""]
runVars == <<args, writable, result, events, file, inputs>>
RunIdle ==
    /\ args = FlagDefaults
    /\ writable = TRUE
    /\ result = InitRun.result
    /\ events = InitRun.events
    /\ file = InitRun.file
    /\ inputs = NoInputs

WCur ==
    [pc |-> pc, stdout |-> stdout, stderr |-> stderr, exitCode |-> exitCode,
     requests |-> requests, result |-> walletResult, pending |-> pending,
     current |-> current]

InitWallet ==
    [pc |-> "wallet_start", stdout |-> <<>>, stderr |-> <<>>, exitCode |-> None,
     requests |-> <<>>, result |-> ZeroWalletResult, pending |-> <<>>, current |-> ""]

WBecome(w) ==
    /\ pc' = w.pc
    /\ stdout' = w.stdout
    /\ stderr' = w.stderr
    /\ exitCode' = w.exitCode
    /\ requests' = w.requests
    /\ walletResult' = w.result
    /\ pending' = w.pending
    /\ current' = w.current

WalletInit ==
    /\ walletArgs \in WalletArgSets
    /\ privateKey \in Keys
    /\ pc = InitWallet.pc
    /\ stdout = InitWallet.stdout
    /\ stderr = InitWallet.stderr
    /\ exitCode = InitWallet.exitCode
    /\ requests = InitWallet.requests
    /\ walletResult = InitWallet.result
    /\ pending = InitWallet.pending
    /\ current = InitWallet.current
    /\ rpcLog = <<>>
    /\ RunIdle
    /\ CodecIdle

WalletStart ==
    /\ pc = "wallet_start"
    /\ \E order \in Orders : WBecome(runWalletCmd(walletArgs, privateKey, WCur, order))
    /\ UNCHANGED <<walletArgs, privateKey, rpcLog, runVars, codec>>

WalletRPCReturn ==
    /\ pc = "wallet_rpc"
    /\ \E resp \in RPCResponses :
          /\ WBecome(RPCReturnStep(walletArgs, WCur, resp))
          /\ rpcLog' = Append(rpcLog, [network |-> current, resp |-> resp])
    /\ UNCHANGED <<walletArgs, privateKey, runVars, codec>>

WalletNext == WalletStart \/ WalletRPCReturn

WalletSpec == WalletInit /\ [][WalletNext]_vars

----------------------------------------------------------------------------
(* atomicToHuman applied to the amounts and precisions of the bounds *)

RECURSIVE Pow10(_)
Pow10(e) == IF e = 0 THEN 1 ELSE 10 * Pow10(e - 1)
Amounts == {m * Pow10(e) : m \in 0..MaxMantissa, e \in 0..MaxExp}
Precisions == 0..MaxDecimals

CodecInit ==
    /\ codec \in [raw : {Itoa(a) : a \in Amounts}, decimals : Precisions, human : {None}]
    /\ privateKey = ""
    /\ pc = "codec"
    /\ stdout = <<>>
    /\ stderr = <<>>
    /\ exitCode = None
    /\ requests = <<>>
    /\ RunIdle
    /\ WalletIdle

Convert ==
    /\ codec.human = None
    /\ codec' = [codec EXCEPT !.human = Some(atomicToHuman(codec.raw, codec.decimals))]
    /\ UNCHANGED <<privateKey, pc, stdout, stderr, exitCode, requests, runVars, walletVars>>

CodecNext == Convert

CodecSpec == CodecInit /\ [][CodecNext]_vars

----------------------------------------------------------------------------
(* Vocabulary of the properties *)

Done == pc = "done"
Exited(code) == exitCode = Some(code)
Happened(e) == \E i \in 1..Len(events) : events[i] = e
TextMode == ~args.jsonOutput
\* a run of the run command proper, not the --version query
RunCommand == ~args.showVer

ProbeAnswered == IsSome(inputs.probe) /\ Get(inputs.probe).err = ""
ProbeStatus == Get(inputs.probe).status
Probe402 == ProbeAnswered /\ ProbeStatus = 402
PayAnswered == IsSome(inputs.pay) /\ Get(inputs.pay).err = ""
PayStatus == Get(inputs.pay).status
LineRead == IsSome(inputs.line)

PaymentSteps == {"credential_check", "new_signer", "payment_request", "payment_response"}
NoPaymentStep == \A e \in PaymentSteps : ~Happened(e)
OnlyProbeSent == Len(requests) = 1 /\ requests[1].kind = "probe_request"

\* the line, trimmed and lower-cased, begins with "y": its first character
\* that is not a space is y or Y
BeginsWithY(line) ==
    /\ line.ok
    /\ \E i \in 1..Len(line.text) :
          /\ line.text[i] \in {"y", "Y"}
          /\ \A j \in 1..(i - 1) : line.text[j] = " "

\* the run main() makes of the given flags, credential and answers
Replay(a, key, canWrite, in) ==
    LET s1 == StartStep(a, InitRun)
        s2 == IF s1.pc = "probing" /\ IsSome(in.probe)
              THEN ProbeStep(a, key, s1, Get(in.probe), canWrite) ELSE s1
        s3 == IF s2.pc = "confirm" /\ IsSome(in.line)
              THEN ConfirmStep(a, key, s2, Get(in.line)) ELSE s2
        s4 == IF s3.pc = "paying" /\ IsSome(in.pay)
              THEN PayStep(a, key, s3, Get(in.pay), canWrite) ELSE s3
    IN s4

StatusCodePairs ==
    {<<"accepted", ExitSuccess>>, <<"payment_required", ExitSuccess>>,
     <<"no_402", ExitSuccess>>, <<"error", ExitError>>,
     <<"rejected", ExitPaymentRejected>>, <<"free", ExitFreeRoute>>}

----------------------------------------------------------------------------
(* C1: every terminated run has exit code 0, 1, 2 or 3, and wherever a       *)
(* final status has been assigned the code is the one of that status:       *)
(* accepted, payment_required, no_402 -> 0; error -> 1; rejected -> 2;      *)
(* free -> 3.  No other status/code pair is reachable.                      *)
C1_ExitCodeOfStatus ==
    /\ Done <=> IsSome(exitCode)
    /\ Done /\ RunCommand =>
          /\ Get(exitCode) \in {ExitSuccess, ExitError, ExitPaymentRejected, ExitFreeRoute}
          /\ result.status # "" => <<result.status, Get(exitCode)>> \in StatusCodePairs
    /\ ~Done => result.status = ""

C1_Witness ==
    Done /\ RunCommand /\ result.status = "rejected" /\ Exited(ExitPaymentRejected)

(* C2: the probe classifies by status code alone: 402 sets paymentRequired  *)
(* and the classification does not end the run; 200 ends it with status     *)
(* free; any other code ends it with status no_402, exit 0 and no error.    *)
(* No probe status code is classified as an error: a run that ends in       *)
(* error after a probe response got there through the payment phase.        *)
C2_ProbeClassification ==
    ProbeAnswered =>
       /\ IsSome(result.probe)
       /\ Get(result.probe).statusCode = ProbeStatus
       /\ Get(result.probe).paymentRequired <=> (ProbeStatus = 402)
       /\ ProbeStatus = 200 =>
             Done /\ result.status = "free" /\ Exited(ExitFreeRoute) /\ result.error = ""
       /\ ProbeStatus \notin {200, 402} =>
             Done /\ result.status = "no_402" /\ Exited(ExitSuccess) /\ result.error = ""
       /\ ProbeStatus = 402 => result.status \notin {"free", "no_402"}
       /\ result.status = "error" => ProbeStatus = 402 /\ Happened("credential_check")

C2_Witness ==
    /\ Done /\ ProbeAnswered /\ ProbeStatus = 404
    /\ Get(inputs.probe).header = HdrJSON
    /\ result.status = "no_402"

(* C3: once the payment request has returned a response, payment.accepted   *)
(* is true iff the code is 200, and the run ends accepted / exit 0 iff 200, *)
(* rejected / exit 2 iff 402, error / exit 1 with "unexpected status N"     *)
(* for every other code N.                                                  *)
C3_PaymentClassification ==
    PayAnswered =>
       /\ Done
       /\ IsSome(result.payment)
       /\ Get(result.payment).statusCode = PayStatus
       /\ Get(result.payment).accepted <=> (PayStatus = 200)
       /\ (result.status = "accepted" /\ Exited(ExitSuccess)) <=> (PayStatus = 200)
       /\ (result.status = "rejected" /\ Exited(ExitPaymentRejected)) <=> (PayStatus = 402)
       /\ (result.status = "error" /\ Exited(ExitError)) <=> (PayStatus \notin {200, 402})
       /\ PayStatus = 500 => result.error = "unexpected status 500"
       /\ PayStatus \in {200, 402} => result.error = ""

C3_Witness ==
    Done /\ PayAnswered /\ PayStatus = 500 /\ result.error = "unexpected status 500"

(* C4: a 402 probe under --skip-verify ends the run with status             *)
(* payment_required and exit 0; on such a run the credential is not         *)
(* checked, no signer is constructed, the gate is not entered and no        *)
(* second request is sent.                                                  *)
C4_SkipVerifyStops ==
    Probe402 /\ args.skipVerify =>
       /\ Done
       /\ result.status = "payment_required"
       /\ Exited(ExitSuccess)
       /\ NoPaymentStep
       /\ ~Happened("prompt") /\ ~Happened("stdin_read")
       /\ OnlyProbeSent

C4_Witness ==
    /\ Done /\ Probe402 /\ args.skipVerify
    /\ privateKey = GoodKey /\ args.dryRun /\ ~args.autoYes

(* C5 as stated: a 402 probe without --skip-verify and with an empty        *)
(* credential ends in the config error (exit 1, status error in the         *)
(* document) with no signer and no payment request, whatever the other      *)
(* flags and the operator's input are.                                      *)
C5_Original ==
    Done /\ Probe402 /\ ~args.skipVerify /\ privateKey = "" =>
       /\ Exited(ExitError)
       /\ args.jsonOutput => result.status = "error" /\ result.error # ""
       /\ ~Happened("new_signer")
       /\ OnlyProbeSent

\* the confirmation gate did not stop the run: it was inactive, or the
\* operator answered affirmatively
GatePassed ==
    \/ ~(args.dryRun /\ ~args.autoYes)
    \/ TextMode /\ LineRead /\ BeginsWithY(Get(inputs.line))

\* the two lines main() writes to standard error for an empty credential
MissingCredentialLines ==
    <<"Error: EVM_PRIVATE_KEY is required for Step 2 (payment).",
      "Set it with: export EVM_PRIVATE_KEY=0x...">>

(* C5 amended: with a 402 probe, no --skip-verify and an empty credential,  *)
(* a run that the confirmation gate does not stop fails with a config       *)
(* error: final status error, exit code 1, no signer constructed and no     *)
(* payment request sent.  A run the gate stops first ends with exit code 0, *)
(* also with no signer and no payment request.  The final status is the     *)
(* status of the result, which main() assigns in --json mode only; the      *)
(* config error is the missing-credential error, the error text of the      *)
(* result in --json mode and the message on standard error in text mode.    *)
(* Nothing is said of the document on standard output.                      *)
C5_MissingCredentialFails ==
    Probe402 /\ ~args.skipVerify /\ privateKey = "" =>
       /\ ~Happened("new_signer")
       /\ OnlyProbeSent
       /\ GatePassed =>
             /\ Done /\ Exited(ExitError) /\ Happened("credential_check")
             /\ args.jsonOutput =>
                   /\ result.status = "error"
                   /\ result.error = "EVM_PRIVATE_KEY is required for Step 2 (payment)"
             /\ TextMode => stderr = MissingCredentialLines
       /\ Done /\ ~GatePassed => Exited(ExitSuccess) /\ ~Happened("credential_check")

C5_Witness ==
    /\ Done /\ Probe402 /\ ~args.skipVerify /\ privateKey = ""
    /\ args.dryRun /\ ~args.autoYes /\ TextMode /\ LineRead
    /\ Exited(ExitError)

(* C6: a run that ends before the payment phase (free, no_402,              *)
(* --skip-verify, structured dry-run without -y, ...) ends with the same    *)
(* status, exit code and output as the run of the same flags and answers    *)
(* under any other value of EVM_PRIVATE_KEY; a 200 probe ends free with     *)
(* exit 3 with or without a credential.                                     *)
C6_CredentialIrrelevantBeforePayment ==
    /\ Done /\ ~Happened("credential_check") =>
          \A key \in Keys :
             LET other == Replay(args, key, writable, inputs)
             IN /\ other.pc = "done"
                /\ other.result.status = result.status
                /\ other.exitCode = exitCode
                /\ other.stdout = stdout
                /\ other.stderr = stderr
                /\ other.requests = requests
    /\ ProbeAnswered /\ ProbeStatus = 200 =>
          result.status = "free" /\ Exited(ExitFreeRoute)
    /\ Probe402 /\ Done /\ (args.skipVerify \/ (args.jsonOutput /\ args.dryRun /\ ~args.autoYes)) =>
          ~Happened("credential_check")

C6_Witness ==
    /\ Done /\ Probe402 /\ privateKey = ""
    /\ args.jsonOutput /\ args.dryRun /\ ~args.autoYes /\ ~args.skipVerify
    /\ result.status = "payment_required" /\ Exited(ExitSuccess)

(* C7 as stated: in --json mode every terminated run has written exactly    *)
(* one JSON document, which carries the final status; an error shows as a   *)
(* non-empty error field in it and a non-zero exit code.                    *)
C7_Original ==
    Done /\ RunCommand /\ args.jsonOutput =>
       /\ Len(stdout) = 1
       /\ stdout[1][1] = "json"
       /\ stdout[1][2].status = result.status
       /\ result.status \in {"free", "payment_required", "no_402", "accepted", "rejected", "error"}
       /\ result.status = "error" =>
             IsSome(stdout[1][2].error) /\ ~Exited(ExitSuccess)

(* C8 as stated: with --json the only text on standard output is the        *)
(* single terminal JSON document: no other line before it, and the          *)
(* document once the run has ended.                                         *)
C8_Original ==
    args.jsonOutput =>
       /\ \A i \in 1..Len(stdout) : stdout[i][1] = "json"
       /\ Len(stdout) <= 1
       /\ Done => Len(stdout) = 1

(* C9 as stated: with --quiet and without --json nothing is written to      *)
(* standard output on any path.                                             *)
C9_Original ==
    args.quiet /\ ~args.jsonOutput /\ RunCommand => stdout = <<>>

(* C10: in text mode with --dry-run and without -y, a 402 probe (without    *)
(* --skip-verify) leaves the run waiting for one line of operator input     *)
(* with no payment step taken; a line that, trimmed and lower-cased, does   *)
(* not begin with "y", or no line at all, ends the run with exit 0 and no   *)
(* signer or payment request; a payment step is taken only after an         *)
(* affirmative line.                                                        *)
C10_ConfirmationGate ==
    TextMode /\ args.dryRun /\ ~args.autoYes =>
       /\ Probe402 /\ ~args.skipVerify /\ ~LineRead =>
             pc = "confirm" /\ Happened("prompt") /\ NoPaymentStep /\ OnlyProbeSent
       /\ LineRead => Probe402 /\ Happened("stdin_read")
       /\ LineRead /\ ~BeginsWithY(Get(inputs.line)) =>
             Done /\ Exited(ExitSuccess) /\ NoPaymentStep /\ OnlyProbeSent
       /\ ~NoPaymentStep => LineRead /\ BeginsWithY(Get(inputs.line))
       /\ LineRead /\ BeginsWithY(Get(inputs.line)) => Happened("credential_check")

C10_Witness ==
    /\ TextMode /\ args.dryRun /\ ~args.autoYes
    /\ Done /\ LineRead /\ Get(inputs.line).ok
    /\ Get(inputs.line).text = <<"n", "y">>
    /\ Exited(ExitSuccess) /\ privateKey = GoodKey

ClosedStatuses == {"free", "payment_required", "no_402", "accepted", "rejected", "error"}
ProbeFailed == IsSome(inputs.probe) /\ Get(inputs.probe).err # ""

(* C11 as stated: in --json mode no operator input is ever read; with       *)
(* --dry-run and without -y a 402 probe ends the run with status            *)
(* payment_required and exit 0, no payment attempted, and the emitted       *)
(* document holds the probe outcome and no payment outcome.                 *)
C11_Original ==
    args.jsonOutput =>
       /\ ~Happened("prompt") /\ ~Happened("stdin_read") /\ ~LineRead
       /\ Probe402 /\ args.dryRun /\ ~args.autoYes =>
             /\ Done /\ result.status = "payment_required" /\ Exited(ExitSuccess)
             /\ NoPaymentStep /\ OnlyProbeSent
             /\ Len(stdout) = 1
             /\ stdout[1][1] = "json"
             /\ IsSome(stdout[1][2].probe)
             /\ ~IsSome(stdout[1][2].payment)

\* the answers with the probe's PAYMENT-REQUIRED header replaced
WithProbeHeader(in, h) ==
    [in EXCEPT !.probe = Some([Get(in.probe) EXCEPT !.header = h])]
WithPayHeader(in, h) ==
    [in EXCEPT !.pay = Some([Get(in.pay) EXCEPT !.header = h])]
\* the status of the emitted document: <<>> when none was emitted
EmittedStatus(out) ==
    IF \E i \in 1..Len(out) : out[i][1] = "json"
    THEN Some(out[CHOOSE i \in 1..Len(out) : out[i][1] = "json"][2].status)
    ELSE None
SameOutcome(other) ==
    /\ other.pc = pc
    /\ other.result.status = result.status
    /\ other.exitCode = exitCode
    /\ EmittedStatus(other.stdout) = EmittedStatus(stdout)

(* C12 as stated: a PAYMENT-REQUIRED or PAYMENT-RESPONSE header that is     *)
(* absent, not base64 or not JSON leaves the decoded field absent and the   *)
(* run proceeds and ends as the run with a well-formed header does: same    *)
(* position, final status, emitted document status and exit code; a         *)
(* well-formed header gives a present, non-empty decoded document.          *)
C12_Original ==
    /\ ProbeAnswered /\ RunCommand =>
          LET h == Get(inputs.probe).header
              p == Get(result.probe)
          IN /\ ProbeStatus = 402 => p.paymentRequired
             /\ h = HdrJSON => IsSome(p.paymentRequirements) /\ Get(p.paymentRequirements) # ""
             /\ h # HdrJSON =>
                   /\ ~IsSome(p.paymentRequirements)
                   /\ SameOutcome(Replay(args, privateKey, writable, WithProbeHeader(inputs, HdrJSON)))
    /\ PayAnswered =>
          LET h == Get(inputs.pay).header
              p == Get(result.payment)
          IN /\ h = HdrJSON => IsSome(p.paymentResponse) /\ Get(p.paymentResponse) # ""
             /\ h # HdrJSON =>
                   /\ ~IsSome(p.paymentResponse)
                   /\ SameOutcome(Replay(args, privateKey, writable, WithPayHeader(inputs, HdrJSON)))

(* C13: a probe request that fails at transport level ends the run: exit 1, *)
(* the error in the document (--json, status error) or on standard error    *)
(* (text), no probe outcome recorded, and no gate, credential check, signer *)
(* or payment request.                                                      *)
C13_ProbeTransportFailure ==
    ProbeFailed =>
       /\ Done /\ Exited(ExitError)
       /\ ~IsSome(result.probe) /\ ~IsSome(result.payment)
       /\ ~Happened("probe_response")
       /\ ~Happened("prompt") /\ ~Happened("stdin_read") /\ ~LineRead
       /\ NoPaymentStep /\ OnlyProbeSent
       /\ args.jsonOutput =>
             /\ result.status = "error"
             /\ result.error = Get(inputs.probe).err
             /\ Len(stdout) = 1 /\ stdout[1][1] = "json"
             /\ stdout[1][2].status = "error"
             /\ stdout[1][2].error = Some(Get(inputs.probe).err)
             /\ stdout[1][2].probe = None
       /\ TextMode => stderr = <<"Error: " \o Get(inputs.probe).err>>

C13_Witness ==
    /\ Done /\ ProbeFailed /\ args.jsonOutput
    /\ privateKey = GoodKey /\ args.dryRun /\ ~args.autoYes /\ ~args.skipVerify

(* C14: every document the run command emits has its status in the closed   *)
(* set free, payment_required, no_402, accepted, rejected, error, and has   *)
(* a (non-empty) error field exactly when the status is error.              *)
C14_ClosedStatusSet ==
    RunCommand =>
       \A i \in 1..Len(stdout) :
          stdout[i][1] = "json" =>
             LET doc == stdout[i][2]
             IN /\ doc.status \in ClosedStatuses
                /\ IsSome(doc.error) <=> (doc.status = "error")
                /\ IsSome(doc.error) => Get(doc.error) # ""
                /\ doc.status = result.status

C14_Witness ==
    /\ Done /\ RunCommand /\ PayAnswered /\ PayStatus = 500
    /\ Len(stdout) = 1 /\ stdout[1][1] = "json"
    /\ stdout[1][2].status = "error"
    /\ stdout[1][2].error = Some("unexpected status 500")

----------------------------------------------------------------------------
(* Vocabulary of the wallet and codec properties *)

CredentialOK == privateKey # "" /\ SignerError(privateKey) = ""
NetworkKnown == walletArgs.network = "" \/ walletArgs.network \in NetworkNames
Targeted == IF walletArgs.network = "" THEN NetworkNames ELSE {walletArgs.network}
\* runWallet has started its loop
Querying == pc \in {"wallet_rpc", "done"} /\ CredentialOK /\ NetworkKnown
RPCSucceeded(resp) == queryUSDCBalance(resp).err = ""
ExitedNonZero == IsSome(exitCode) /\ Get(exitCode) # 0

(* C15 as stated: with a --network name that is not in the registry the     *)
(* wallet command issues no RPC call, produces no balance entry and         *)
(* terminates with a non-zero exit code.                                    *)
C15_Original ==
    ~NetworkKnown =>
       /\ requests = <<>>
       /\ walletResult.balances = <<>>
       /\ pc # "wallet_rpc"
       /\ Done => ExitedNonZero

(* C16 as stated: in --json mode of the wallet command a missing            *)
(* credential, a malformed credential and an unknown network each end with  *)
(* exactly one JSON document on standard output whose error field is set,   *)
(* nothing reported as text, and a non-zero exit code.                      *)
C16_Original ==
    walletArgs.jsonOut /\ Done /\ (~CredentialOK \/ ~NetworkKnown) =>
       /\ Len(stdout) = 1
       /\ stdout[1][1] = "json"
       /\ IsSome(stdout[1][2].error)
       /\ stderr = <<>>
       /\ ExitedNonZero

(* C17: each targeted network gets exactly one RPC call and exactly one     *)
(* entry; the entry holds the human balance and the raw value when the call *)
(* and the decoding succeeded and the error text otherwise; every entry is  *)
(* determined by the answer for its own network alone, whatever the other   *)
(* networks answered; the command ends with the entries of all targeted     *)
(* networks.                                                                *)
C17_OneEntryPerNetwork ==
    Querying =>
       LET entries == walletResult.balances
       IN /\ Len(entries) = Len(rpcLog)
          /\ Len(requests) = Len(rpcLog) + (IF pc = "wallet_rpc" THEN 1 ELSE 0)
          /\ \A i, j \in 1..Len(requests) : requests[i].url = requests[j].url => i = j
          /\ \A i \in 1..Len(requests) :
                \E n \in Targeted : requests[i].url = networks[n].RPCURL
          /\ \A i \in 1..Len(rpcLog) :
                LET n == rpcLog[i].network
                    q == queryUSDCBalance(rpcLog[i].resp)
                IN /\ n \in Targeted
                   /\ requests[i].url = networks[n].RPCURL
                   /\ entries[i].network = n
                   /\ entries[i].chainId = networks[n].ChainID
                   /\ RPCSucceeded(rpcLog[i].resp) =>
                         /\ entries[i].balance = q.human
                         /\ entries[i].raw = q.raw
                         /\ entries[i].balance # "error"
                   /\ ~RPCSucceeded(rpcLog[i].resp) =>
                         /\ entries[i].balance = "error"
                         /\ entries[i].raw = q.err
                         /\ q.err # ""
          /\ Done =>
                /\ Exited(0)
                /\ {entries[i].network : i \in 1..Len(entries)} = Targeted
                /\ Len(entries) = Cardinality(Targeted)
                /\ walletArgs.jsonOut =>
                      /\ Len(stdout) = 1
                      /\ stdout[1][1] = "json"
                      /\ stdout[1][2].balances = entries
                      /\ stdout[1][2].error = None
                /\ ~walletArgs.jsonOut => Len(stdout) = 2 + Len(entries)

C17_Witness ==
    /\ Done /\ Querying /\ walletArgs.network = "" /\ walletArgs.jsonOut
    /\ Len(rpcLog) = Cardinality(NetworkNames)
    /\ rpcLog[1].resp.err = RPCTransportError
    /\ rpcLog[2].resp.result = "0x3e8"
    /\ rpcLog[3].resp.result = "0xzz"
    /\ walletResult.balances[1].balance = "error"
    /\ walletResult.balances[2].balance = "0.001"
    /\ walletResult.balances[4].balance # "error"

ZeroResults == {"0x", "0x0", "0x" \o Zeros64}

(* C18 as stated: an RPC result that is empty or all-zero hex ('0x', '0x0', *)
(* a string of zeros) gives no error, raw value '0' and the human balance   *)
(* atomicToHuman gives for '0' at 6 decimals, '0.000000', whichever of      *)
(* these forms was returned.                                                *)
C18_Original ==
    \A i \in 1..Len(rpcLog) :
       LET resp == rpcLog[i].resp
           q == queryUSDCBalance(resp)
       IN resp.err = "" /\ resp.valid /\ ~IsSome(resp.rpcError) /\ resp.result \in ZeroResults =>
             /\ q.err = ""
             /\ q.raw = "0"
             /\ q.human = atomicToHuman("0", 6)
             /\ q.human = "0.000000"
             /\ walletResult.balances[i].balance = "0.000000"
             /\ walletResult.balances[i].raw = "0"

CodecAmount == ParseDecimal(codec.raw)
CodecHuman == Get(codec.human)
\* the remainder padded to D digits, trailing zeros trimmed, at least two digits
FractionByRule(r, D) ==
    LET padded == ZeroPad(Itoa(r), D)
        trimmed == TrimRightZeros(padded)
    IN IF Len(trimmed) >= 2 THEN trimmed
       ELSE IF Len(padded) >= 2 THEN SubSeq(padded, 1, 2)
       ELSE padded \o "0"
RECURSIVE Zeros(_)
Zeros(n) == IF n = 0 THEN "" ELSE "0" \o Zeros(n - 1)

(* C19 as stated: for every atomic amount A and precision D, atomicToHuman  *)
(* returns a value: floor(A / 10^D), a dot, and A mod 10^D zero-padded to D *)
(* digits with trailing zeros trimmed but at least two fractional digits (a *)
(* zero remainder: zeros only, at least two); ('1000', 6) gives '0.001' and *)
(* ('0', 6) gives '0.000000'.                                               *)
C19_Original ==
    IsSome(codec.human) =>
       LET A == CodecAmount
           D == codec.decimals
           whole == Itoa(A \div Pow10(D))
           r == A % Pow10(D)
       IN /\ ~Panicked(CodecHuman)
          /\ r # 0 => CodecHuman = whole \o "." \o FractionByRule(r, D)
          /\ r = 0 => \E k \in 2..(MaxDecimals + 2) : CodecHuman = whole \o "." \o Zeros(k)
          /\ A = 1000 /\ D = 6 => CodecHuman = "0.001"
          /\ A = 0 /\ D = 6 => CodecHuman = "0.000000"

DotAt(str) == CHOOSE i \in 1..Len(str) : CharAt(str, i) = "."
\* a decimal number w.f read back and scaled by 10^D
Rescale(str, D) ==
    LET w == SubSeq(str, 1, DotAt(str) - 1)
        f == SubSeq(str, DotAt(str) + 1, Len(str))
    IN ParseDecimal(w) * Pow10(D)
       + (IF Len(f) <= D THEN ParseDecimal(f) * Pow10(D - Len(f))
          ELSE ParseDecimal(f) \div Pow10(Len(f) - D))

(* C20 as stated: for all atomic amounts A and precisions D, reading        *)
(* atomicToHuman(A, D) as a decimal number and re-scaling it by 10^D gives  *)
(* A back.                                                                  *)
C20_Original ==
    IsSome(codec.human) =>
       /\ ~Panicked(CodecHuman)
       /\ Rescale(CodecHuman, codec.decimals) = CodecAmount

----------------------------------------------------------------------------
\* the method the command line asks for: the one given with -X, else POST
\* with a body and GET without
MethodAskedFor ==
    IF args.methodGiven THEN args.method
    ELSE IF args.data # "" THEN "POST" ELSE "GET"

(* C21 as stated: -d changes the method to POST only when -X was not given: *)
(* with -d and no -X both requests use POST, and a method given with -X     *)
(* (GET included) is the method of the probe and of the payment request.    *)
C21_Original ==
    \A i \in 1..Len(requests) :
       /\ requests[i].method = MethodAskedFor
       /\ requests[i].body = args.data

WriteWarning == "Warning: failed to write to " \o args.outputFile

(* C22: with -o set, a failed write of the output file only adds a warning  *)
(* on standard error: the position, the result with its final status, the   *)
(* standard output with the emitted document, the requests and the exit     *)
(* code are those of the same run in which the write succeeds.              *)
C22_WriteFailureIsWarning ==
    args.outputFile # "" /\ ~writable /\ pc # "start" =>
       LET ok == Replay(args, privateKey, TRUE, inputs)
       IN /\ ok.pc = pc
          /\ ok.result = result
          /\ ok.stdout = stdout
          /\ ok.requests = requests
          /\ ok.exitCode = exitCode
          /\ Happened("write_file") =>
                /\ file = None
                /\ IsSome(ok.file)
                /\ stderr = Append(ok.stderr, WriteWarning)
          /\ ~Happened("write_file") => stderr = ok.stderr /\ file = ok.file

C22_Witness ==
    /\ Done /\ args.outputFile # "" /\ ~writable /\ Happened("write_file")
    /\ args.jsonOutput /\ PayAnswered /\ PayStatus = 402
    /\ Len(stdout) = 1 /\ stdout[1][1] = "json"
    /\ stdout[1][2].status = "rejected"
    /\ Exited(ExitPaymentRejected)
    /\ stderr = <<WriteWarning>>

\* sub occurs in text
Contains(text, sub) ==
    \E i \in 1..(Len(text) - Len(sub) + 1) : SubSeq(text, i, i + Len(sub) - 1) = sub
\* every string of an emitted document
DocStrings(doc) ==
    IF "status" \notin DOMAIN doc THEN {doc.version}
    ELSE {doc.version, doc.endpoint, doc.method, doc.status}
         \cup (IF IsSome(doc.error) THEN {Get(doc.error)} ELSE {})
         \cup (IF IsSome(doc.probe)
               THEN {Get(doc.probe)[k] : k \in DOMAIN Get(doc.probe)} ELSE {})
         \cup (IF IsSome(doc.payment)
               THEN {Get(doc.payment)[k] : k \in DOMAIN Get(doc.payment)} ELSE {})
\* everything written to standard output and standard error
Printed ==
    UNION {IF stdout[i][1] = "json" THEN DocStrings(stdout[i][2]) ELSE {stdout[i][2]} :
              i \in 1..Len(stdout)}
    \cup {stderr[i] : i \in 1..Len(stderr)}
\* everything put into the requests
Sent == UNION {{requests[i].method, requests[i].url, requests[i].body} : i \in 1..Len(requests)}

(* C23: the private key is in nothing the program prints or sends: no text  *)
(* on standard output or standard error, no string of the JSON document and *)
(* no request contains it, and the probe request is the same whatever the   *)
(* credential is.  The signer address derived from it may appear.           *)
C23_KeyNeverLeaves ==
    /\ privateKey # "" => \A text \in Printed \cup Sent : ~Contains(text, privateKey)
    /\ Len(requests) >= 1 =>
          /\ requests[1].kind = "probe_request"
          /\ \A k \in Keys :
                LET other == Replay(args, k, writable, inputs)
                IN Len(other.requests) >= 1 /\ other.requests[1] = requests[1]

C23_Witness ==
    /\ Done /\ privateKey = GoodKey /\ args.jsonOutput /\ PayAnswered
    /\ Len(requests) = 2
    /\ Len(stdout) = 1 /\ stdout[1][1] = "json"
    /\ SignerAddress(privateKey) \in DocStrings(stdout[1][2])

Phases ==
    <<"probe_request", "probe_response", "prompt", "stdin_read",
      "credential_check", "new_signer", "payment_request", "payment_response">>
Count(e) == Cardinality({i \in 1..Len(events) : events[i] = e})
Pos(e) == CHOOSE i \in 1..Len(events) : events[i] = e

(* C24: the phases come in the order probe request, probe response,         *)
(* confirmation gate, credential check, signer construction, payment        *)
(* request, payment response, each at most once; the payment phase begins   *)
(* only after the probe response has been received with status 402 and the  *)
(* gate has let the run pass; a run sends at most one probe request and at  *)
(* most one payment request.                                                *)
C24_PhasesInOrder ==
    /\ \A i \in 1..Len(Phases) : Count(Phases[i]) <= 1
    /\ \A i, j \in 1..Len(Phases) :
          i < j /\ Happened(Phases[i]) /\ Happened(Phases[j]) => Pos(Phases[i]) < Pos(Phases[j])
    /\ Happened("probe_response") => Happened("probe_request") /\ ProbeAnswered
    /\ Happened("prompt") => Probe402 /\ Happened("probe_response")
    /\ Happened("stdin_read") => Happened("prompt")
    /\ Happened("credential_check") => Probe402 /\ Happened("probe_response") /\ GatePassed
    /\ Happened("new_signer") => Happened("credential_check")
    /\ Happened("payment_request") => Happened("new_signer") /\ Probe402
    /\ Happened("payment_response") => Happened("payment_request")
    /\ Len(requests) <= 2
    /\ \A i \in 1..Len(requests) :
          requests[i].kind = (IF i = 1 THEN "probe_request" ELSE "payment_request")
    /\ Len(requests) = Count("probe_request") + Count("payment_request")

C24_Witness ==
    /\ Done /\ \A i \in 1..Len(Phases) : Happened(Phases[i])
    /\ Len(requests) = 2

PayFailed == IsSome(inputs.pay) /\ Get(inputs.pay).err # ""

(* C25 as stated: when the payment request fails at transport level the run *)
(* ends with exit code 1 and, in --json mode, final status error; the       *)
(* probe outcome is the one built from the probe response (status code,     *)
(* paymentRequired, requirements, body), there is no payment outcome, and   *)
(* the emitted document contains that probe outcome and no payment outcome. *)
C25_Original ==
    PayFailed =>
       /\ Done /\ Exited(ExitError)
       /\ result.probe = Some(BuildProbe(Get(inputs.probe)))
       /\ result.payment = None
       /\ args.jsonOutput =>
             /\ result.status = "error"
             /\ Len(stdout) = 1
             /\ stdout[1][1] = "json"
             /\ stdout[1][2].status = "error"
             /\ stdout[1][2].probe = Some(ProbeDoc(BuildProbe(Get(inputs.probe))))
             /\ stdout[1][2].payment = None

(* C26 as stated: a probe outcome has its paymentRequirements set only if   *)
(* paymentRequired is true (the status was exactly 402); a 200 or other     *)
(* non-402 response never yields a probe outcome with paymentRequirements.  *)
C26_Original ==
    IsSome(result.probe) =>
       LET p == Get(result.probe)
       IN /\ p.paymentRequired <=> (ProbeStatus = StatusPaymentRequired)
          /\ IsSome(p.paymentRequirements) => p.paymentRequired

----------------------------------------------------------------------------
RECURSIVE WalletRun(_, _, _)
\* the wallet run carried on from w when network n answers answer[n]
WalletRun(wa, w, answer) ==
    IF w.pc = "wallet_rpc" THEN WalletRun(wa, RPCReturnStep(wa, w, answer[w.current]), answer)
    ELSE w
\* the wallet run for a visiting order and given per-network answers
WalletReplay(wa, key, order, answer) ==
    WalletRun(wa, runWalletCmd(wa, key, InitWallet, order), answer)
\* the answer each visited network gave in this run
Answers ==
    [n \in {rpcLog[i].network : i \in 1..Len(rpcLog)} |->
       rpcLog[CHOOSE i \in 1..Len(rpcLog) : rpcLog[i].network = n].resp]
EntrySet(entries) == {entries[i] : i \in 1..Len(entries)}

\* one fixed visiting order: the names sorted
SortedOrder == <<"avalanche", "avalanche-fuji", "base", "base-sepolia">>

(* C27: for a given address, target selection and per-network RPC answers   *)
(* the wallet query produces the same set of balance entries in whatever    *)
(* order the networks are visited: the entries of a run, visited in any     *)
(* order, are those of the run that visits the networks in sorted order and *)
(* gets the same answers; there is one entry per targeted network, each     *)
(* determined by the answer of its own network alone, and only the order of *)
(* the entries follows the order of the visit.                              *)
C27_DeterministicUpToOrder ==
    Done /\ Querying =>
       LET answer == Answers
           w == WalletReplay(walletArgs, privateKey, SortedOrder, answer)
           mine == walletResult.balances
       IN /\ w.pc = "done"
          /\ w.exitCode = exitCode
          /\ Len(w.result.balances) = Len(mine)
          /\ EntrySet(w.result.balances) = EntrySet(mine)
          /\ EntrySet(mine) = {BalanceEntry(n, queryUSDCBalance(answer[n])) : n \in Targeted}
          /\ \A i \in 1..Len(mine) : mine[i].network = rpcLog[i].network

C27_Witness ==
    /\ Done /\ Querying /\ walletArgs.network = ""
    /\ Len(rpcLog) = Cardinality(NetworkNames)
    /\ rpcLog[1].network = "avalanche-fuji"
    /\ rpcLog[1].resp.result = "0x0F4240"
    /\ rpcLog[2].resp.err = RPCTransportError
    /\ rpcLog[4].network = "base"
    /\ WalletReplay(walletArgs, privateKey, SortedOrder, Answers).result.balances
          # walletResult.balances

----------------------------------------------------------------------------
FreeRoute == ProbeAnswered /\ ProbeStatus = StatusOK
\* the body saveOutput is called with, if it is called at all
BodyToSave ==
    IF FreeRoute THEN Some(Get(inputs.probe).body)
    ELSE IF PayAnswered THEN Some(Get(inputs.pay).body)
    ELSE None

(* C28: the -o file is written at most once per run, and exactly when -o is *)
(* set and the response that ends the run has a non-empty body: the probe   *)
(* body on a free route, the payment response body once the payment request *)
(* has returned, whatever its status.  The content written is that body.    *)
(* Runs that end with no_402, payment_required, a declined confirmation or  *)
(* an error before a payment response never touch the file.                 *)
C28_OutputFileWrittenOnce ==
    /\ Count("write_file") <= 1
    /\ Happened("write_file") <=>
          /\ args.outputFile # ""
          /\ IsSome(BodyToSave)
          /\ Get(BodyToSave) # ""
    /\ IsSome(file) <=> Happened("write_file") /\ writable
    /\ IsSome(file) => file = BodyToSave
    /\ Done /\ ~FreeRoute /\ ~PayAnswered => ~Happened("write_file") /\ file = None
    /\ Happened("write_file") /\ FreeRoute => Pos("probe_response") < Pos("write_file")
    /\ Happened("write_file") /\ ~FreeRoute => Pos("payment_response") < Pos("write_file")

C28_Witness ==
    /\ Done /\ PayAnswered /\ PayStatus = 500 /\ Exited(ExitError)
    /\ Count("write_file") = 1
    /\ file = Some(BodyJSON)
    /\ Get(inputs.probe).body = ""

GateInactive == ~args.dryRun \/ args.autoYes
\* the same command line in the other output mode
OtherMode == [args EXCEPT !.jsonOutput = ~args.jsonOutput]

(* C29: with the confirmation gate inactive (--dry-run unset or -y set),    *)
(* the run in the other output mode, with the same URL, flags, credential   *)
(* and server responses, stands at the same point, has sent the same        *)
(* requests and has terminated with the same exit code.                     *)
C29_ModeDoesNotChangeOutcome ==
    GateInactive /\ pc # "start" =>
       LET other == Replay(OtherMode, privateKey, writable, inputs)
       IN /\ other.pc = pc
          /\ other.requests = requests
          /\ other.exitCode = exitCode
          /\ other.file = file

C29_Witness ==
    /\ Done /\ GateInactive /\ args.dryRun /\ args.jsonOutput
    /\ Len(requests) = 2 /\ PayAnswered /\ Exited(ExitPaymentRejected)
    /\ Replay(OtherMode, privateKey, writable, inputs).stdout # stdout

====
